---- MODULE Spec2Model ----
(***************************************************************************)
(* pay-frontend: the service metadata cache middleware                     *)
(* (src/unnamed/part_001) and the outbound request client                  *)
(* (src/app/utils/base_client2.js).                                        *)
(*                                                                         *)
(* Spec        the cache middleware handling concurrent inbound requests   *)
(* SpecClient  _request and getHeaders building an outbound call, over     *)
(*             every combination of inputs                                 *)
(* SpecRetry   one outbound call followed through the retry policy given   *)
(*             to requestretry                                             *)
(* SpecPool    concurrent outbound calls drawing sockets from the two      *)
(*             shared agents                                               *)
(***************************************************************************)
EXTENDS Integers, Sequences, FiniteSets, TLC

\* ------------------------------------------------------------------ bounds
MaxReqs == 2        \* inbound requests handled in one run
MaxTime == 3        \* Date.now() runs over 0..MaxTime (milliseconds)

\* SERVICE_CACHE_MAX_AGE = parseInt(process.env.SERVICE_CACHE_MAX_AGE || 15 * 60 * 1000);
\* the model runs with the environment variable set to 2 (milliseconds).
SERVICE_CACHE_MAX_AGE == 2

MaxAttemptMs == 1   \* an attempt of an outbound call lasts 1..MaxAttemptMs
MaxLate == 1        \* a timer fires 0..MaxLate after it is due
MaxCalls == 3       \* concurrent outbound calls competing for sockets

\* maxSockets: process.env.MAX_SOCKETS || 100; the model runs with the
\* environment variable set to 2.
MAX_SOCKETS == 2

\* request.defaults({ maxAttempts: 3, retryDelay: 5000, ... })
maxAttempts == 3
retryDelay == 5000

Reqs == 1..MaxReqs
Accounts == {"a1", "a2"}
\* lodash.get yields undefined when the path is missing; as a cache key it is
\* the property name "undefined".
Undefined == "undefined"
Keys == Accounts \cup {Undefined}

\* A service object resolved by findServiceBy for gateway account gw.  Every
\* call resolves to a fresh object, told apart by the request whose call built
\* it; Null is the absence of one (null / undefined, falsy).
Null == [gw |-> "null", by |-> 0]
Services == [gw : Keys, by : Reqs]

\* req.chargeData: absent, present without gateway_account, or present with
\* gateway_account (whose gateway_account_id may itself be missing).
ChargeDatas ==
    {[hasData |-> FALSE, hasGa |-> FALSE, id |-> Undefined],
     [hasData |-> TRUE, hasGa |-> FALSE, id |-> Undefined]}
    \cup [hasData : {TRUE}, hasGa : {TRUE}, id : Keys]

NoReq == [chargeId |-> FALSE, chargeData |-> [hasData |-> FALSE, hasGa |-> FALSE, id |-> Undefined]]
ReqInputs == [chargeId : BOOLEAN, chargeData : ChargeDatas]

VARIABLES
    \* ---- cache middleware (src/unnamed/part_001)
    now,               \* Date.now()
    cache,             \* serviceCache: key -> entry
    pc,                \* per request: position in the middleware
    req,               \* per request: req.chargeId (truthy?) and req.chargeData
    gatewayAccountId,  \* per request: const gatewayAccountId
    cachedService,     \* per request: const cachedService
    locals,            \* per request: res.locals.service
    nextCalls,         \* per request: number of next() invocations
    fetchCalls,        \* per request: number of findServiceBy invocations
    responded,         \* per request: status kind passed to responseRouter.response
    fetchOutcome,      \* per request: how the findServiceBy promise settled
    lastPut,           \* per key: time of the latest serviceCache.put, -1 if none

    \* ---- outbound request client (src/app/utils/base_client2.js)
    cpc,               \* the call: idle, inflight, waiting (retry timer), replied
    proxyUrl,          \* process.env.FORWARD_PROXY_URL (<<>> when unset)
    call,              \* the arguments _request was called with
    requestOptions,    \* the options handed to client(...)
    attempts,          \* attempts started so far
    attemptsLeft,      \* attempts the retry policy still allows
    clock,             \* time of the outbound call, milliseconds
    timerDue,          \* when the pending retry timer is due
    outcomes,          \* outcome of each attempt made, in order
    starts,            \* start time of each attempt
    ends,              \* end time of each attempt
    delays,            \* delay of each retry timer set
    cbCalls,           \* number of invocations of the caller's callback
    cbResult,          \* what the callback was invoked with
    \* ---- the two shared agents (connection pools)
    pcall,             \* per concurrent call: idle, queued, active, done
    pagent,            \* per concurrent call: the agent _request selected
    porigin,           \* per concurrent call: the host:port it goes to
    inUse,             \* per agent and origin: sockets serving a request
    freeSockets        \* per agent and origin: idle keep-alive sockets

mwVars == <<now, cache, pc, req, gatewayAccountId, cachedService, locals,
            nextCalls, fetchCalls, responded, fetchOutcome, lastPut>>

clVars == <<cpc, proxyUrl, call, requestOptions, attempts, attemptsLeft, clock,
            timerDue, outcomes, starts, ends, delays, cbCalls, cbResult>>

poolVars == <<pcall, pagent, porigin, inUse, freeSockets>>

vars == <<mwVars, clVars, poolVars>>

\* ------------------------------------------------------- the cache store
NoEntry == [present |-> FALSE, value |-> Null, expire |-> 0]

\* new Cache(): empty
EmptyCache == [k \in Keys |-> NoEntry]

\* Cache.get(key): the value of a present entry that has not expired,
\* otherwise null.
CacheGet(c, k, t) ==
    IF c[k].present /\ c[k].expire >= t THEN c[k].value ELSE Null

\* Cache.get(key) drops an entry it finds expired.
CacheAfterGet(c, k, t) ==
    IF c[k].present /\ c[k].expire < t THEN [c EXCEPT ![k] = NoEntry] ELSE c

\* Cache.put(key, value, time): the entry expires `time` after now.
CachePut(c, k, v, ttl, t) ==
    [c EXCEPT ![k] = [present |-> TRUE, value |-> v, expire |-> t + ttl]]

\* ----------------------------------------------------------- middleware
\* lodash.get(req, 'chargeData.gateway_account.gateway_account_id')
GetGatewayAccountId(r) ==
    IF r.chargeData.hasData /\ r.chargeData.hasGa THEN r.chargeData.id ELSE Undefined

StartCheckFailsNegationLost(r) == ~r.chargeId /\ r.chargeData.hasData

\* !req.chargeId && !req.chargeData
StartCheckFails(r) == ~r.chargeId /\ ~r.chargeData.hasData

\* if (cachedService)
Truthy(v) == v # Null

PutMaxAgeDoubled == 2 * SERVICE_CACHE_MAX_AGE

\* the time handed to serviceCache.put
PutMaxAge == SERVICE_CACHE_MAX_AGE

PutKeyFirstAccount(r) == "a1"

PutKeyUnset(r) == Undefined

\* the key handed to serviceCache.put
PutKey(r) == gatewayAccountId[r]

\* req.chargeData.gateway_account.serviceName evaluates without a TypeError
ServiceNameReadable(r) == r.chargeData.hasData /\ r.chargeData.hasGa

MwInit ==
    /\ now = 0
    /\ cache = EmptyCache
    /\ pc = [r \in Reqs |-> "idle"]
    /\ req = [r \in Reqs |-> NoReq]
    /\ gatewayAccountId = [r \in Reqs |-> Undefined]
    /\ cachedService = [r \in Reqs |-> Null]
    /\ locals = [r \in Reqs |-> Null]
    /\ nextCalls = [r \in Reqs |-> 0]
    /\ fetchCalls = [r \in Reqs |-> 0]
    /\ responded = [r \in Reqs |-> "none"]
    /\ fetchOutcome = [r \in Reqs |-> "none"]
    /\ lastPut = [k \in Keys |-> -1]

UnauthorisedThenNext(r) ==
    /\ responded' = [responded EXCEPT ![r] = "UNAUTHORISED"]
    /\ pc' = [pc EXCEPT ![r] = "responded"]
    /\ nextCalls' = [nextCalls EXCEPT ![r] = @ + 1]
    /\ UNCHANGED <<cache, cachedService, locals, fetchCalls>>

\* return responseRouter.response(req, res, 'UNAUTHORISED', withAnalyticsError())
Unauthorised(r) ==
    /\ responded' = [responded EXCEPT ![r] = "UNAUTHORISED"]
    /\ pc' = [pc EXCEPT ![r] = "responded"]
    /\ UNCHANGED <<cache, cachedService, locals, nextCalls, fetchCalls>>

OnHitSkipsAttach(r, got) ==
    /\ nextCalls' = [nextCalls EXCEPT ![r] = @ + 1]
    /\ pc' = [pc EXCEPT ![r] = "done"]
    /\ UNCHANGED <<locals, fetchCalls>>

OnHitFallsThrough(r, got) ==
    /\ locals' = [locals EXCEPT ![r] = got]
    /\ nextCalls' = [nextCalls EXCEPT ![r] = @ + 1]
    /\ fetchCalls' = [fetchCalls EXCEPT ![r] = @ + 1]
    /\ pc' = [pc EXCEPT ![r] = "fetching"]

\* res.locals.service = cachedService; next()
OnHit(r, got) ==
    /\ locals' = [locals EXCEPT ![r] = got]
    /\ nextCalls' = [nextCalls EXCEPT ![r] = @ + 1]
    /\ pc' = [pc EXCEPT ![r] = "done"]
    /\ UNCHANGED fetchCalls

\* return getAdminUsersClient({...}).findServiceBy({ gatewayAccountId })
OnMiss(r) ==
    /\ fetchCalls' = [fetchCalls EXCEPT ![r] = @ + 1]
    /\ pc' = [pc EXCEPT ![r] = "fetching"]
    /\ UNCHANGED <<locals, nextCalls>>

HandleWaitsForPending(r, in) ==
    /\ pc[r] = "idle"
    /\ \A q \in Reqs : q < r => pc[q] # "idle"
    /\ \A q \in Reqs : pc[q] # "fetching"
    /\ req' = [req EXCEPT ![r] = in]
    /\ gatewayAccountId' = [gatewayAccountId EXCEPT ![r] = GetGatewayAccountId(in)]
    /\ IF StartCheckFails(in)
       THEN Unauthorised(r)
       ELSE LET gid == GetGatewayAccountId(in)
                got == CacheGet(cache, gid, now)
            IN  /\ cache' = CacheAfterGet(cache, gid, now)
                /\ cachedService' = [cachedService EXCEPT ![r] = got]
                /\ IF Truthy(got) THEN OnHit(r, got) ELSE OnMiss(r)
                /\ UNCHANGED responded
    /\ UNCHANGED <<now, fetchOutcome, lastPut>>
    /\ UNCHANGED <<clVars, poolVars>>

\* module.exports = (req, res, next) => { ... }: the synchronous part, for a
\* request carrying the inputs `in`.  Requests are numbered in arrival order.
Handle(r, in) ==
    /\ pc[r] = "idle"
    /\ \A q \in Reqs : q < r => pc[q] # "idle"
    /\ req' = [req EXCEPT ![r] = in]
    /\ gatewayAccountId' = [gatewayAccountId EXCEPT ![r] = GetGatewayAccountId(in)]
    /\ IF StartCheckFails(in)
       THEN Unauthorised(r)
       ELSE LET gid == GetGatewayAccountId(in)
                got == CacheGet(cache, gid, now)
            IN  /\ cache' = CacheAfterGet(cache, gid, now)
                /\ cachedService' = [cachedService EXCEPT ![r] = got]
                /\ IF Truthy(got) THEN OnHit(r, got) ELSE OnMiss(r)
                /\ UNCHANGED responded
    /\ UNCHANGED <<now, fetchOutcome, lastPut>>
    /\ UNCHANGED <<clVars, poolVars>>

FetchThenKeepsLiveEntry(r) ==
    LET service == [gw |-> gatewayAccountId[r], by |-> r]
        live == Truthy(CacheGet(cache, PutKey(r), now))
    IN  /\ pc[r] = "fetching"
        /\ cache' = IF live THEN cache
                    ELSE CachePut(cache, PutKey(r), service, PutMaxAge, now)
        /\ lastPut' = IF live THEN lastPut ELSE [lastPut EXCEPT ![PutKey(r)] = now]
        /\ locals' = [locals EXCEPT ![r] = service]
        /\ nextCalls' = [nextCalls EXCEPT ![r] = @ + 1]
        /\ fetchOutcome' = [fetchOutcome EXCEPT ![r] = "resolved"]
        /\ pc' = [pc EXCEPT ![r] = "done"]
        /\ UNCHANGED <<now, req, gatewayAccountId, cachedService, fetchCalls, responded>>
        /\ UNCHANGED <<clVars, poolVars>>

\* .then(service => { serviceCache.put(...); res.locals.service = service; next() })
\* findServiceBy resolved to a fresh service object of the account asked for.
FetchThen(r) ==
    LET service == [gw |-> gatewayAccountId[r], by |-> r]
    IN  /\ pc[r] = "fetching"
        /\ cache' = CachePut(cache, PutKey(r), service, PutMaxAge, now)
        /\ lastPut' = [lastPut EXCEPT ![PutKey(r)] = now]
        /\ locals' = [locals EXCEPT ![r] = service]
        /\ nextCalls' = [nextCalls EXCEPT ![r] = @ + 1]
        /\ fetchOutcome' = [fetchOutcome EXCEPT ![r] = "resolved"]
        /\ pc' = [pc EXCEPT ![r] = "done"]
        /\ UNCHANGED <<now, req, gatewayAccountId, cachedService, fetchCalls, responded>>
        /\ UNCHANGED <<clVars, poolVars>>

FetchCatchCachesFailure(r) ==
    /\ pc[r] = "fetching"
    /\ fetchOutcome' = [fetchOutcome EXCEPT ![r] = "rejected"]
    /\ cache' = CachePut(cache, PutKey(r), Null, PutMaxAge, now)
    /\ IF ServiceNameReadable(req[r])
       THEN /\ nextCalls' = [nextCalls EXCEPT ![r] = @ + 1]
            /\ pc' = [pc EXCEPT ![r] = "done"]
       ELSE /\ pc' = [pc EXCEPT ![r] = "threw"]
            /\ UNCHANGED nextCalls
    /\ UNCHANGED <<now, req, gatewayAccountId, cachedService, locals,
                   fetchCalls, responded, lastPut>>
    /\ UNCHANGED <<clVars, poolVars>>

\* .catch(() => { logger.error(`... ${req.chargeData.gateway_account.serviceName}`); next() })
\* Building the log message throws a TypeError when req.chargeData or its
\* gateway_account is undefined: the handler ends before next().
FetchCatch(r) ==
    /\ pc[r] = "fetching"
    /\ fetchOutcome' = [fetchOutcome EXCEPT ![r] = "rejected"]
    /\ IF ServiceNameReadable(req[r])
       THEN /\ nextCalls' = [nextCalls EXCEPT ![r] = @ + 1]
            /\ pc' = [pc EXCEPT ![r] = "done"]
       ELSE /\ pc' = [pc EXCEPT ![r] = "threw"]
            /\ UNCHANGED nextCalls
    /\ UNCHANGED <<now, cache, req, gatewayAccountId, cachedService, locals,
                   fetchCalls, responded, lastPut>>
    /\ UNCHANGED <<clVars, poolVars>>

\* The expiry timer set by Cache.put fires once the entry's time has come.
CacheTimeout(k) ==
    /\ cache[k].present
    /\ now >= cache[k].expire
    /\ cache' = [cache EXCEPT ![k] = NoEntry]
    /\ UNCHANGED <<now, pc, req, gatewayAccountId, cachedService, locals,
                   nextCalls, fetchCalls, responded, fetchOutcome, lastPut>>
    /\ UNCHANGED <<clVars, poolVars>>

\* Every invocation of the middleware has a req and res of its own: once a
\* request has reached its end, its slot stands for a later request, which
\* starts with nothing but the shared serviceCache.
Recycle(r) ==
    /\ pc[r] \in {"done", "responded", "threw"}
    /\ pc' = [pc EXCEPT ![r] = "idle"]
    /\ req' = [req EXCEPT ![r] = NoReq]
    /\ gatewayAccountId' = [gatewayAccountId EXCEPT ![r] = Undefined]
    /\ cachedService' = [cachedService EXCEPT ![r] = Null]
    /\ locals' = [locals EXCEPT ![r] = Null]
    /\ nextCalls' = [nextCalls EXCEPT ![r] = 0]
    /\ fetchCalls' = [fetchCalls EXCEPT ![r] = 0]
    /\ responded' = [responded EXCEPT ![r] = "none"]
    /\ fetchOutcome' = [fetchOutcome EXCEPT ![r] = "none"]
    /\ UNCHANGED <<now, cache, lastPut>>
    /\ UNCHANGED <<clVars, poolVars>>

\* Time passes between handlers.
Tick ==
    /\ now < MaxTime
    /\ now' = now + 1
    /\ UNCHANGED <<cache, pc, req, gatewayAccountId, cachedService, locals,
                   nextCalls, fetchCalls, responded, fetchOutcome, lastPut>>
    /\ UNCHANGED <<clVars, poolVars>>


\* ------------------------------------------- outbound request client: data
\* A URL string as its pieces in order; urlParse takes them apart.
Urls ==
    { <<"https:", "//", "svc.internal", ":", "8443", "/x">>,
      <<"https:", "//", "svc.internal", "/x">>,
      <<"http:", "//", "localhost", ":", "8000", "/y">>,
      <<"http:", "//", "adminusers", "/y">>,
      <<"HTTPS:", "//", "SVC.Internal", ":", "443", "/">>,
      <<>> }
ProxyUrls == { <<>>, <<"http:", "//", "proxy.internal", ":", "3128", "/">> }
SchemeTokens == {"http:", "https:", "HTTPS:"}
PortTokens == {"8443", "8000", "443", "3128"}

\* JavaScript null and undefined, and a property an object does not have
NullStr == "<null>"
UndefinedValue == "<undefined>"
Absent == "<absent>"

\* CORRELATION_HEADER_NAME = require('./correlation_header').CORRELATION_HEADER
CORRELATION_HEADER_NAME == "x-request-id"
HeaderNames ==
    {"Content-Type", CORRELATION_HEADER_NAME, "host", "X-Amzn-Trace-Id",
     "Authorization", "content-type"}
NoHeaders == [h \in HeaderNames |-> Absent]

\* args.headers as callers give it (NoHeaders: none given)
CallerHeaders ==
    { NoHeaders,
      [NoHeaders EXCEPT !["Authorization"] = "Bearer t"],
      [NoHeaders EXCEPT !["Content-Type"] = "text/plain"],
      [NoHeaders EXCEPT !["host"] = "other.host", ![CORRELATION_HEADER_NAME] = "caller-cid"],
      [NoHeaders EXCEPT !["X-Amzn-Trace-Id"] = "Root=caller", !["content-type"] = "text/plain"],
      [NoHeaders EXCEPT !["host"] = UndefinedValue, !["Authorization"] = UndefinedValue] }

CorrelationIds == {UndefinedValue, "", "cid-1"}

\* { clsSegment, subSegment }: the ambient trace segment and the caller's
\* sub-segment, each possibly missing.  Only get() passes a sub-segment on.
NoSegment == [present |-> FALSE, trace_id |-> "", id |-> ""]
ClsSegments == {NoSegment, [present |-> TRUE, trace_id |-> "1-abc", id |-> "seg0"]}
SubSegments == {NoSegment, [present |-> TRUE, trace_id |-> "1-abc", id |-> "sub1"]}
Methods == {"GET", "POST", "PUT", "PATCH", "DELETE"}

Args == [correlationId : CorrelationIds, headers : CallerHeaders,
         payload : BOOLEAN, qs : BOOLEAN]

CallInputs ==
    { c \in [method : Methods, url : Urls, args : Args,
             clsSegment : ClsSegments, subSegment : SubSegments] :
        c.method # "GET" => c.subSegment = NoSegment }

\* How one attempt ends: an error (with its code, or none) or a response.
NoErr == "<no error>"
NoCode == "<no code>"
AttemptOutcomes ==
    { [err |-> "ECONNRESET", status |-> 0],
      [err |-> "ETIMEDOUT", status |-> 0],
      [err |-> NoCode, status |-> 0],
      [err |-> NoErr, status |-> 200],
      [err |-> NoErr, status |-> 500] }
NoOutcome == [err |-> NoErr, status |-> 0]

\* const RETRIABLE_ERRORS = ['ECONNRESET']
RETRIABLE_ERRORS == {"ECONNRESET"}

\* ------------------------------------------ outbound request client: code
\* Host names are case-folded by the parser.
ToLowerCase(t) ==
    CASE t = "SVC.Internal" -> "svc.internal"
      [] t = "HTTPS:" -> "https:"
      [] OTHER -> t

\* require('url').parse: protocol, hostname, port and path of a URL string;
\* a piece the string does not have is null.
urlParse(u) ==
    LET hasScheme == Len(u) >= 1 /\ u[1] \in SchemeTokens
        hasHost == hasScheme /\ Len(u) >= 3 /\ u[2] = "//"
        hasPort == hasHost /\ Len(u) >= 5 /\ u[4] = ":" /\ u[5] \in PortTokens
        pathAt == IF hasPort THEN 6 ELSE IF hasHost THEN 4 ELSE 1
    IN  [ protocol |-> IF hasScheme THEN ToLowerCase(u[1]) ELSE NullStr,
          hostname |-> IF hasHost THEN ToLowerCase(u[3]) ELSE NullStr,
          port |-> IF hasPort THEN u[5] ELSE NullStr,
          path |-> IF Len(u) >= pathAt THEN u[pathAt] ELSE NullStr ]

\* string concatenation turns null into "null"
Str(v) == IF v = NullStr THEN "null" ELSE v

HostHeaderDropsPort(url) == Str(urlParse(url).hostname)

\* var port = (urlParse(url).port) ? ':' + urlParse(url).port : ''
\* headers['host'] = urlParse(url).hostname + port
HostHeader(url) ==
    LET port == IF urlParse(url).port # NullStr /\ urlParse(url).port # ""
                THEN ":" \o urlParse(url).port ELSE ""
    IN  Str(urlParse(url).hostname) \o port

\* the headers getHeaders sets itself, before the caller's are merged in
ComputedHeaders(args, segmentData, url) ==
    [h \in HeaderNames |->
        CASE h = "Content-Type" -> "application/json"
          [] h = CORRELATION_HEADER_NAME ->
                IF args.correlationId \in {UndefinedValue, ""} THEN "" ELSE args.correlationId
          [] h = "host" -> IF url # <<>> THEN HostHeader(url) ELSE Absent
          [] h = "X-Amzn-Trace-Id" ->
                IF segmentData.clsSegment.present
                THEN LET subSegmentId ==
                            IF segmentData.subSegment.present
                            THEN segmentData.subSegment.id
                            ELSE "newseg"  \* new AWSXRay.Segment('_request', ...)
                     IN  "Root=" \o segmentData.clsSegment.trace_id
                            \o ";Parent=" \o subSegmentId \o ";Sampled=1"
                ELSE Absent
          [] OTHER -> Absent]

MergeComputedWins(object, source) ==
    [h \in HeaderNames |-> IF object[h] # Absent THEN object[h] ELSE source[h]]

\* _.merge(object, source): every property of source is assigned to object,
\* except that a property whose value is undefined is skipped when object
\* already has that key.
Merge(object, source) ==
    [h \in HeaderNames |->
        IF source[h] = Absent THEN object[h]
        ELSE IF source[h] = UndefinedValue /\ object[h] # Absent THEN object[h]
        ELSE source[h]]

\* getHeaders(args, segmentData, url)
getHeaders(args, segmentData, url) ==
    Merge(ComputedHeaders(args, segmentData, url), args.headers)

\* urlParse(url).protocol === 'http:' ? httpAgent : httpsAgent
SelectAgent(url) == IF urlParse(url).protocol = "http:" THEN "httpAgent" ELSE "httpsAgent"

UrlOrForwardProxyKeepsTargetPort(url, proxy) ==
    IF proxy # <<>>
    THEN [isObject |-> TRUE, href |-> url,
          protocol |-> urlParse(url).protocol,
          hostname |-> urlParse(proxy).hostname,
          port |-> urlParse(url).port,
          path |-> urlParse(url).path]
    ELSE [isObject |-> FALSE, href |-> url,
          protocol |-> urlParse(url).protocol,
          hostname |-> urlParse(url).hostname,
          port |-> urlParse(url).port,
          path |-> urlParse(url).path]

\* urlOrForwardProxy: the url itself, or its parse with hostname and port
\* overwritten by the forward proxy's.
UrlOrForwardProxy(url, proxy) ==
    IF proxy # <<>>
    THEN [isObject |-> TRUE, href |-> url,
          protocol |-> urlParse(url).protocol,
          hostname |-> urlParse(proxy).hostname,
          port |-> urlParse(proxy).port,
          path |-> urlParse(url).path]
    ELSE [isObject |-> FALSE, href |-> url,
          protocol |-> urlParse(url).protocol,
          hostname |-> urlParse(url).hostname,
          port |-> urlParse(url).port,
          path |-> urlParse(url).path]

\* const requestOptions = { uri, method, agent, headers }, plus body and qs
RequestOptions(c, proxy) ==
    [ uri |-> UrlOrForwardProxy(c.url, proxy),
      method |-> c.method,
      agent |-> SelectAgent(c.url),
      headers |-> getHeaders(c.args, [clsSegment |-> c.clsSegment,
                                      subSegment |-> c.subSegment], c.url),
      body |-> c.args.payload,
      qs |-> c.args.qs ]

retryOnAnyFailure(o) == o.err # NoErr \/ o.status >= 500

\* function retryOnEconnreset (err) { return err && _.includes(RETRIABLE_ERRORS, err.code) }
retryOnEconnreset(o) == o.err # NoErr /\ o.err \in RETRIABLE_ERRORS

NoCall == [method |-> "GET", url |-> <<>>,
           args |-> [correlationId |-> UndefinedValue, headers |-> NoHeaders,
                     payload |-> FALSE, qs |-> FALSE],
           clsSegment |-> NoSegment, subSegment |-> NoSegment]

ClInit ==
    /\ cpc = "idle"
    /\ call = NoCall
    /\ requestOptions = RequestOptions(NoCall, <<>>)
    /\ attempts = 0
    /\ attemptsLeft = maxAttempts
    /\ clock = 0
    /\ timerDue = 0
    /\ outcomes = <<>>
    /\ starts = <<>>
    /\ ends = <<>>
    /\ delays = <<>>
    /\ cbCalls = 0
    /\ cbResult = NoOutcome

\* _request(methodName, url, args, callback, subSegment), reached through
\* get/post/put/patch/delete: builds the options and hands them to the
\* retrying client, which starts the first attempt at once.
Request(c) ==
    /\ cpc = "idle"
    /\ call' = c
    /\ requestOptions' = RequestOptions(c, proxyUrl)
    /\ attempts' = 1
    /\ attemptsLeft' = maxAttempts - 1
    /\ starts' = <<clock>>
    /\ cpc' = "inflight"
    /\ UNCHANGED <<proxyUrl, clock, timerDue, outcomes, ends, delays, cbCalls, cbResult>>
    /\ UNCHANGED <<mwVars, poolVars>>

AttemptEndsStatusBecomesError(o, d) ==
    /\ cpc = "inflight"
    /\ clock' = clock + d
    /\ outcomes' = Append(outcomes, o)
    /\ ends' = Append(ends, clock + d)
    /\ IF retryOnEconnreset(o) /\ attemptsLeft > 0
       THEN /\ timerDue' = clock + d + retryDelay
            /\ delays' = Append(delays, retryDelay)
            /\ cpc' = "waiting"
            /\ UNCHANGED <<cbCalls, cbResult>>
       ELSE /\ cbCalls' = cbCalls + 1
            /\ cbResult' = IF o.err = NoErr /\ o.status >= 500
                           THEN [err |-> "EHTTP", status |-> o.status]
                           ELSE o
            /\ cpc' = "replied"
            /\ UNCHANGED <<timerDue, delays>>
    /\ UNCHANGED <<proxyUrl, call, requestOptions, attempts, attemptsLeft, starts>>
    /\ UNCHANGED <<mwVars, poolVars>>

\* An attempt ends with outcome o after d milliseconds.  The retry strategy
\* decides, while attempts are left, between a retry after retryDelay and the
\* caller's callback.
AttemptEnds(o, d) ==
    /\ cpc = "inflight"
    /\ clock' = clock + d
    /\ outcomes' = Append(outcomes, o)
    /\ ends' = Append(ends, clock + d)
    /\ IF retryOnEconnreset(o) /\ attemptsLeft > 0
       THEN /\ timerDue' = clock + d + retryDelay
            /\ delays' = Append(delays, retryDelay)
            /\ cpc' = "waiting"
            /\ UNCHANGED <<cbCalls, cbResult>>
       ELSE /\ cbCalls' = cbCalls + 1
            /\ cbResult' = o
            /\ cpc' = "replied"
            /\ UNCHANGED <<timerDue, delays>>
    /\ UNCHANGED <<proxyUrl, call, requestOptions, attempts, attemptsLeft, starts>>
    /\ UNCHANGED <<mwVars, poolVars>>

\* The retry timer fires (no earlier than due) and the next attempt starts.
RetryTimerFires(late) ==
    /\ cpc = "waiting"
    /\ clock' = timerDue + late
    /\ attempts' = attempts + 1
    /\ attemptsLeft' = attemptsLeft - 1
    /\ starts' = Append(starts, timerDue + late)
    /\ cpc' = "inflight"
    /\ UNCHANGED <<proxyUrl, call, requestOptions, timerDue, outcomes, ends, delays,
                   cbCalls, cbResult>>
    /\ UNCHANGED <<mwVars, poolVars>>

\* Building a request, over every combination of inputs.
NextClient == \E c \in CallInputs : Request(c)

\* The retry policy does not read the request: it is followed through all
\* attempt outcomes for calls with plain arguments.
RetryCallInputs ==
    { c \in CallInputs :
        /\ c.args = NoCall.args
        /\ c.clsSegment = NoSegment /\ c.subSegment = NoSegment
        /\ c.url \in { <<"https:", "//", "svc.internal", ":", "8443", "/x">>,
                       <<"http:", "//", "adminusers", "/y">> } }

NextRetry ==
    \/ \E c \in RetryCallInputs : Request(c)
    \/ \E o \in AttemptOutcomes, d \in 1..MaxAttemptMs : AttemptEnds(o, d)
    \/ \E late \in 0..MaxLate : RetryTimerFires(late)

\* ----------------------------------------------------- the shared agents
Agents == {"httpAgent", "httpsAgent"}
Calls == 1..MaxCalls
PoolUrls == Urls \ {<<>>}
Origins == {HostHeader(u) : u \in PoolUrls}
Infinity == -1

\* httpsAgent = new https.Agent(agentOptions) carries maxSockets;
\* httpAgent = require('http').globalAgent is used as it comes, and its
\* maxSockets is never set.
AgentMaxSockets(a) == IF a = "httpsAgent" THEN MAX_SOCKETS ELSE Infinity

HasRoom(a, o) ==
    AgentMaxSockets(a) = Infinity \/ inUse[a][o] < AgentMaxSockets(a)

PoolInit ==
    /\ pcall = [c \in Calls |-> "idle"]
    /\ pagent = [c \in Calls |-> "httpsAgent"]
    /\ porigin = [c \in Calls |-> "svc.internal"]
    /\ inUse = [a \in Agents |-> [o \in Origins |-> 0]]
    /\ freeSockets = [a \in Agents |-> [o \in Origins |-> 0]]

\* A call for url is issued: the agent _request selected gives it an idle
\* socket, opens a new one while the origin has room, or queues it.
IssueCall(c, url) ==
    LET a == SelectAgent(url)
        o == HostHeader(url)
    IN  /\ pcall[c] = "idle"
        /\ pagent' = [pagent EXCEPT ![c] = a]
        /\ porigin' = [porigin EXCEPT ![c] = o]
        /\ IF freeSockets[a][o] > 0
           THEN /\ freeSockets' = [freeSockets EXCEPT ![a][o] = @ - 1]
                /\ inUse' = [inUse EXCEPT ![a][o] = @ + 1]
                /\ pcall' = [pcall EXCEPT ![c] = "active"]
           ELSE IF HasRoom(a, o)
           THEN /\ inUse' = [inUse EXCEPT ![a][o] = @ + 1]
                /\ pcall' = [pcall EXCEPT ![c] = "active"]
                /\ UNCHANGED freeSockets
           ELSE /\ pcall' = [pcall EXCEPT ![c] = "queued"]
                /\ UNCHANGED <<inUse, freeSockets>>
        /\ UNCHANGED <<mwVars, clVars>>

\* A call completes: its socket goes to a queued call for the same origin,
\* or is kept alive idle.
CompleteCall(c) ==
    LET a == pagent[c]
        o == porigin[c]
        waiting == {q \in Calls : pcall[q] = "queued" /\ pagent[q] = a /\ porigin[q] = o}
    IN  /\ pcall[c] = "active"
        /\ IF waiting # {}
           THEN /\ \E q \in waiting :
                     pcall' = [pcall EXCEPT ![c] = "done", ![q] = "active"]
                /\ UNCHANGED <<inUse, freeSockets>>
           ELSE /\ pcall' = [pcall EXCEPT ![c] = "done"]
                /\ inUse' = [inUse EXCEPT ![a][o] = @ - 1]
                /\ freeSockets' = [freeSockets EXCEPT ![a][o] = @ + 1]
        /\ UNCHANGED <<pagent, porigin>>
        /\ UNCHANGED <<mwVars, clVars>>

\* An idle keep-alive socket is closed.
CloseIdleSocket(a, o) ==
    /\ freeSockets[a][o] > 0
    /\ freeSockets' = [freeSockets EXCEPT ![a][o] = @ - 1]
    /\ UNCHANGED <<pcall, pagent, porigin, inUse>>
    /\ UNCHANGED <<mwVars, clVars>>

NextPool ==
    \/ \E c \in Calls, u \in PoolUrls : IssueCall(c, u)
    \/ \E c \in Calls : CompleteCall(c)
    \/ \E a \in Agents, o \in Origins : CloseIdleSocket(a, o)

OpenSockets(a, o) == inUse[a][o] + freeSockets[a][o]

Init == MwInit /\ ClInit /\ proxyUrl = <<>> /\ PoolInit

Next ==
    \/ \E r \in Reqs, in \in ReqInputs : Handle(r, in)
    \/ \E r \in Reqs : FetchThen(r)
    \/ \E r \in Reqs : FetchCatch(r)
    \/ \E k \in Keys : CacheTimeout(k)
    \/ Tick

Spec == Init /\ [][Next]_vars

\* the outbound client, with FORWARD_PROXY_URL set or not at process start
InitClient == MwInit /\ ClInit /\ proxyUrl \in ProxyUrls /\ PoolInit

SpecClient == InitClient /\ [][NextClient]_vars

SpecRetry == InitClient /\ [][NextRetry]_vars

SpecPool == Init /\ [][NextPool]_vars

\* A stream of requests, at most MaxReqs of them in progress at a time, all
\* handled within the lifetime of the entries they write: requests with
\* neither chargeId nor chargeData, with a chargeId alone, and with the
\* charge data of an account.
StreamInputs ==
    { in \in ReqInputs :
        in.chargeData.hasData => (in.chargeId /\ in.chargeData.id \in Accounts) }

NextStream ==
    \/ \E r \in Reqs, in \in StreamInputs : Handle(r, in)
    \/ \E r \in Reqs : FetchThen(r)
    \/ \E r \in Reqs : FetchCatch(r)
    \/ \E r \in Reqs : Recycle(r)

SpecStream == Init /\ [][NextStream]_vars

\* ----------------------------------------------------- client properties
AllConnReset ==
    \A i \in 1..Len(outcomes) : outcomes[i].err = "ECONNRESET"

\* C6: a call whose every attempt ends in an ECONNRESET error is attempted
\* exactly 3 times, each retry 5000 ms after the failed attempt, before the
\* error reaches the callback; a call answered with status 500 is attempted
\* exactly once.
C6_RetryPolicy ==
    /\ (cpc = "replied" /\ AllConnReset) =>
          /\ attempts = 3 /\ Len(outcomes) = 3
          /\ cbCalls = 1 /\ cbResult.err = "ECONNRESET"
          /\ Len(delays) = 2
          /\ \A i \in 1..2 : delays[i] = 5000 /\ starts[i + 1] >= ends[i] + 5000
    /\ (AllConnReset /\ Len(outcomes) < 3) => cbCalls = 0
    /\ (Len(outcomes) >= 1 /\ outcomes[1].err = NoErr /\ outcomes[1].status = 500) =>
          /\ attempts = 1 /\ Len(outcomes) = 1 /\ cpc = "replied"
          /\ cbCalls = 1 /\ cbResult = outcomes[1] /\ delays = <<>>

C6_Witness ==
    /\ cpc = "replied" /\ AllConnReset /\ attempts = 3
    /\ cbResult.err = "ECONNRESET" /\ starts[3] > ends[2] + 5000

\* C13: an attempt is followed by another only when it ended in an
\* ECONNRESET error and fewer than 3 attempts have been made; the first
\* attempt that ends in a response of any status, or in any other error, is
\* the last; the callback is invoked at most once, exactly when the last
\* attempt has ended, and receives that attempt's error or response as it is.
C13_RetryOnlyOnConnResetThenCallback ==
    LET n == Len(outcomes)
    IN  /\ attempts <= 3 /\ n <= attempts /\ attempts <= n + 1
        /\ attempts = maxAttempts - attemptsLeft \/ cpc = "idle"
        /\ \A i \in 1..(attempts - 1) :
              outcomes[i].err = "ECONNRESET" /\ starts[i + 1] >= ends[i] + retryDelay
        /\ (n >= 1 /\ (outcomes[n].err # "ECONNRESET" \/ n = 3)) => cpc = "replied"
        /\ (n >= 1 /\ outcomes[n].err = "ECONNRESET" /\ n < 3) => cpc \in {"waiting", "inflight"}
        /\ cbCalls = (IF cpc = "replied" THEN 1 ELSE 0)
        /\ cpc = "replied" => (n = attempts /\ cbResult = outcomes[n])
        /\ cpc # "replied" => cbResult = NoOutcome

\* retried once after ECONNRESET, then answered 500: two attempts, the
\* callback holds the 500 response with no error
C13_Witness ==
    /\ cpc = "replied" /\ attempts = 2 /\ cbCalls = 1
    /\ outcomes[1].err = "ECONNRESET"
    /\ cbResult = [err |-> NoErr, status |-> 500]

CallerGave(h) == call.args.headers[h] # Absent
ExampleUrl == <<"https:", "//", "svc.internal", ":", "8443", "/x">>

\* C8: unless the caller supplies the key, the headers of a call carry
\* Content-Type application/json and the correlation header with the given
\* correlationId, or '' when none is given; with a URL, host is the URL's
\* hostname followed by ':' and the port exactly when the URL has a port
\* (https://svc.internal:8443/x gives svc.internal:8443).
C8_ComputedHeaders ==
    cpc # "idle" =>
        LET headers == requestOptions.headers
            parsed == urlParse(call.url)
        IN  /\ ~CallerGave("Content-Type") => headers["Content-Type"] = "application/json"
            /\ ~CallerGave(CORRELATION_HEADER_NAME) =>
                  headers[CORRELATION_HEADER_NAME] =
                      (IF call.args.correlationId = "cid-1" THEN "cid-1" ELSE "")
            /\ (~CallerGave("host") /\ call.url # <<>>) =>
                  /\ parsed.port # NullStr =>
                        headers["host"] = parsed.hostname \o ":" \o parsed.port
                  /\ parsed.port = NullStr => headers["host"] = parsed.hostname
            /\ (~CallerGave("host") /\ call.url = ExampleUrl) =>
                  headers["host"] = "svc.internal:8443"
            /\ (~CallerGave("host") /\ call.url = <<"http:", "//", "adminusers", "/y">>) =>
                  headers["host"] = "adminusers"

C8_Witness ==
    /\ cpc # "idle" /\ call.url = ExampleUrl /\ call.args.headers = NoHeaders
    /\ call.args.correlationId = UndefinedValue
    /\ requestOptions.headers["host"] = "svc.internal:8443"
    /\ requestOptions.headers["Content-Type"] = "application/json"
    /\ requestOptions.headers[CORRELATION_HEADER_NAME] = ""

Computed ==
    ComputedHeaders(call.args, [clsSegment |-> call.clsSegment,
                                subSegment |-> call.subSegment], call.url)

\* C9 (as stated): for every key in both the computed and the caller's
\* headers the final value is the caller's, and every computed header whose
\* key the caller did not supply is unchanged.
C9_CallerHeadersWin ==
    cpc # "idle" =>
        \A h \in HeaderNames :
            /\ (CallerGave(h) /\ Computed[h] # Absent) =>
                  requestOptions.headers[h] = call.args.headers[h]
            /\ ~CallerGave(h) => requestOptions.headers[h] = Computed[h]

\* C9 (amended): as stated, except that a caller's header whose value is
\* undefined does not override: the computed value of that key is kept.
C9_CallerHeadersWinUnlessUndefined ==
    cpc # "idle" =>
        \A h \in HeaderNames :
            /\ (CallerGave(h) /\ Computed[h] # Absent
                  /\ call.args.headers[h] # UndefinedValue) =>
                  requestOptions.headers[h] = call.args.headers[h]
            /\ (CallerGave(h) /\ Computed[h] # Absent
                  /\ call.args.headers[h] = UndefinedValue) =>
                  requestOptions.headers[h] = Computed[h]
            /\ ~CallerGave(h) => requestOptions.headers[h] = Computed[h]

C9_Witness ==
    /\ cpc # "idle"
    /\ call.args.headers["host"] = "other.host"
    /\ call.url = ExampleUrl
    /\ requestOptions.headers["host"] = "other.host"
    /\ requestOptions.headers["Content-Type"] = "application/json"

\* C10: in either pool, secure or plain, the sockets open at once for the
\* destination of a call never exceed MAX_SOCKETS.
C10_PoolsBounded ==
    \A a \in Agents, o \in Origins : OpenSockets(a, o) <= MAX_SOCKETS

\* ------------------------------------------------- middleware properties
Arrived(r) == pc[r] # "idle"
LacksBoth(r) == ~req[r].chargeId /\ ~req[r].chargeData.hasData
\* r is handled in this step
Arrives(r) == pc[r] = "idle" /\ pc'[r] # "idle"
\* the key the request handled in this step looks up
ArrivingKey(r) ==
    IF req'[r].chargeData.hasData /\ req'[r].chargeData.hasGa
    THEN req'[r].chargeData.id ELSE Undefined
\* a live entry: put less than SERVICE_CACHE_MAX_AGE ago
PutWithinWindow(k) == lastPut[k] >= 0 /\ now - lastPut[k] < SERVICE_CACHE_MAX_AGE
PutExpired(k) == lastPut[k] >= 0 /\ now - lastPut[k] > SERVICE_CACHE_MAX_AGE

\* C1: a request with neither req.chargeId nor req.chargeData gets the
\* 'UNAUTHORISED' response; findServiceBy and next() are never invoked for it.
C1_UnauthorisedShortCircuit ==
    \A r \in Reqs :
        (Arrived(r) /\ LacksBoth(r)) =>
            /\ responded[r] = "UNAUTHORISED"
            /\ fetchCalls[r] = 0
            /\ nextCalls[r] = 0
            /\ locals[r] = Null

C1_Witness ==
    \E r \in Reqs : Arrived(r) /\ LacksBoth(r) /\ responded[r] = "UNAUTHORISED"

\* C2: a request that passed the start check, missed the cache and whose
\* findServiceBy call rejected still has next() invoked, with no `service`
\* value in res.locals.
C2_FailedFetchContinues ==
    \A r \in Reqs :
        fetchOutcome[r] = "rejected" => (nextCalls[r] = 1 /\ locals[r] = Null)

\* C3: on a cache hit findServiceBy is not invoked, res.locals.service is
\* exactly the value the cache holds, and next() is invoked.
C3_CacheHit ==
    /\ [](\A r \in Reqs :
            cachedService[r] # Null =>
                (fetchCalls[r] = 0 /\ locals[r] = cachedService[r]
                 /\ nextCalls[r] = 1 /\ pc[r] = "done"))
    /\ [][\A r \in Reqs :
            (Arrives(r) /\ (req'[r].chargeId \/ req'[r].chargeData.hasData)
             /\ cache[ArrivingKey(r)].present
             /\ cache[ArrivingKey(r)].expire >= now) =>
                (locals'[r] = cache[ArrivingKey(r)].value
                 /\ fetchCalls'[r] = 0 /\ nextCalls'[r] = 1)]_vars

C3_Witness ==
    \E r \in Reqs : cachedService[r] # Null /\ locals[r] = cachedService[r]
                    /\ nextCalls[r] = 1

\* C4: right after a successful fetch the cache holds the fetched value under
\* the request's account identifier, and a request for that identifier handled
\* less than SERVICE_CACHE_MAX_AGE after the put is served from the cache with
\* no findServiceBy call.
C4_FetchPopulatesCache ==
    /\ [][\A r \in Reqs :
            (pc[r] = "fetching" /\ fetchOutcome'[r] = "resolved") =>
                (cache'[gatewayAccountId[r]].present
                 /\ cache'[gatewayAccountId[r]].value = locals'[r]
                 /\ locals'[r] # Null
                 /\ locals'[r].gw = gatewayAccountId[r])]_vars
    /\ [][\A r \in Reqs :
            (Arrives(r) /\ pc'[r] # "responded" /\ PutWithinWindow(ArrivingKey(r))) =>
                (pc'[r] = "done" /\ fetchCalls'[r] = 0 /\ locals'[r] # Null
                 /\ locals'[r].gw = ArrivingKey(r))]_vars

C4_Witness ==
    \E r, q \in Reqs :
        /\ q < r
        /\ fetchOutcome[q] = "resolved"
        /\ gatewayAccountId[r] = gatewayAccountId[q]
        /\ pc[r] = "done" /\ fetchCalls[r] = 0 /\ locals[r] = locals[q]

\* C5 (as stated): at most one findServiceBy call for an account identifier is
\* outstanding per cache miss / TTL window, whatever the interleaving.
C5_AtMostOneFetchPerWindow ==
    \A k \in Keys :
        Cardinality({r \in Reqs : pc[r] = "fetching" /\ gatewayAccountId[r] = k}) <= 1

\* C5 (amended): every request makes at most one findServiceBy call, makes it
\* only after its own lookup found no live entry, and a request handled while
\* the entry is live makes none.
C5_OneFetchPerObservedMiss ==
    /\ [](\A r \in Reqs :
            /\ fetchCalls[r] <= 1
            /\ fetchCalls[r] = 1 =>
                  (cachedService[r] = Null /\ ~LacksBoth(r) /\ Arrived(r)))
    /\ [][\A r \in Reqs :
            fetchCalls'[r] > fetchCalls[r] =>
                (Arrives(r) /\ ~PutWithinWindow(ArrivingKey(r)))]_vars

C5_Witness ==
    \E r, q \in Reqs :
        /\ r # q
        /\ gatewayAccountId[r] = gatewayAccountId[q]
        /\ pc[r] = "fetching" /\ pc[q] = "fetching"
        /\ fetchCalls[r] = 1 /\ fetchCalls[q] = 1

\* C7: every entry is put with the same time to live SERVICE_CACHE_MAX_AGE; a
\* lookup less than that after the put returns the entry, a lookup more than
\* that after it finds nothing, and a request handled then fetches again.
C7_CacheExpiry ==
    /\ [](\A k \in Keys :
            /\ PutWithinWindow(k) => CacheGet(cache, k, now) # Null
            /\ (PutExpired(k) \/ lastPut[k] < 0) => CacheGet(cache, k, now) = Null
            /\ cache[k].present => cache[k].expire = lastPut[k] + SERVICE_CACHE_MAX_AGE)
    /\ [][\A r \in Reqs :
            (Arrives(r) /\ pc'[r] # "responded" /\ PutExpired(ArrivingKey(r))) =>
                (pc'[r] = "fetching" /\ fetchCalls'[r] = 1 /\ locals'[r] = Null)]_vars

C7_Witness ==
    \E r, q \in Reqs :
        /\ q < r
        /\ fetchOutcome[q] = "resolved"
        /\ gatewayAccountId[r] = gatewayAccountId[q]
        /\ PutExpired(gatewayAccountId[r])
        /\ pc[r] = "fetching" /\ cachedService[r] = Null

\* r passed the start check (it reached the cache lookup)
PassedStart(r) == Arrived(r) /\ ~LacksBoth(r)
\* r's findServiceBy promise resolves in this step
Resolves(r) == pc[r] = "fetching" /\ fetchOutcome'[r] = "resolved"

\* C11: a request that misses while another request's fetch for the same
\* account identifier is outstanding makes its own findServiceBy call and
\* leaves the other's outstanding; each fetch settles for its own request;
\* and when both resolve, the later resolution overwrites the entry with its
\* own value, expiring SERVICE_CACHE_MAX_AGE after that write.
C11_ConcurrentMissesLastWriteWins ==
    /\ [][\A r, q \in Reqs :
            (r # q /\ Arrives(r) /\ pc'[r] # "responded"
             /\ pc[q] = "fetching" /\ gatewayAccountId[q] = ArrivingKey(r)
             /\ CacheGet(cache, ArrivingKey(r), now) = Null) =>
                (pc'[r] = "fetching" /\ fetchCalls'[r] = 1
                 /\ pc'[q] = "fetching" /\ fetchCalls'[q] = 1)]_vars
    /\ [][\A r, q \in Reqs :
            (r # q /\ gatewayAccountId[q] = gatewayAccountId[r]
             /\ fetchOutcome[q] = "resolved" /\ Resolves(r)) =>
                (/\ cache'[gatewayAccountId[r]].present
                 /\ cache'[gatewayAccountId[r]].value = [gw |-> gatewayAccountId[r], by |-> r]
                 /\ cache'[gatewayAccountId[r]].expire = now + SERVICE_CACHE_MAX_AGE
                 /\ lastPut'[gatewayAccountId[r]] = now
                 /\ locals'[r] = [gw |-> gatewayAccountId[r], by |-> r]
                 /\ locals'[q] = [gw |-> gatewayAccountId[q], by |-> q]
                 /\ pc'[r] = "done" /\ pc'[q] = "done"
                 /\ nextCalls'[r] = 1 /\ nextCalls'[q] = 1)]_vars

\* both requests missed (the second while the first was still fetching), both
\* fetches resolved, the first request's
\* last: the entry is the first request's
C11_Witness ==
    \E k \in Keys :
        /\ now = 1 /\ lastPut[k] = 1
        /\ \A r \in {1, 2} :
              /\ gatewayAccountId[r] = k /\ PassedStart(r)
              /\ fetchCalls[r] = 1 /\ fetchOutcome[r] = "resolved"
        /\ cache[k].present /\ cache[k].value.by = 1
        /\ cache[k].expire = 1 + SERVICE_CACHE_MAX_AGE

\* C12: a request whose gateway account identifier is absent is stopped at
\* the start check: it is answered UNAUTHORISED, makes no findServiceBy call
\* and nothing is cached under the absent identifier.
C12_OnlyIdentifiedRequestsProceed ==
    \A r \in Reqs :
        (Arrived(r) /\ GetGatewayAccountId(req[r]) = Undefined) =>
            /\ pc[r] = "responded"
            /\ fetchCalls[r] = 0
            /\ ~cache[Undefined].present

\* C14: with FORWARD_PROXY_URL set, the uri handed to the client has the
\* proxy's hostname and port and the target URL's protocol and path, while
\* the host header getHeaders computes is still the target URL's hostname
\* and port (https://svc.internal:8443/x through http://proxy.internal:3128/
\* goes to proxy.internal 3128 with host svc.internal:8443); with no proxy
\* the uri is the target URL itself.
C14_ForwardProxyKeepsHostHeader ==
    cpc # "idle" =>
        LET uri == requestOptions.uri
            target == urlParse(call.url)
            proxy == urlParse(proxyUrl)
            hostOfTarget == Str(target.hostname) \o
                (IF target.port = NullStr THEN "" ELSE ":" \o target.port)
        IN  /\ proxyUrl # <<>> =>
                  /\ uri.isObject
                  /\ uri.hostname = proxy.hostname /\ uri.port = proxy.port
                  /\ uri.hostname = "proxy.internal" /\ uri.port = "3128"
                  /\ uri.protocol = target.protocol /\ uri.path = target.path
            /\ proxyUrl = <<>> =>
                  /\ ~uri.isObject /\ uri.href = call.url
                  /\ uri.hostname = target.hostname /\ uri.port = target.port
                  /\ uri.protocol = target.protocol /\ uri.path = target.path
            /\ (call.url # <<>> /\ call.args.headers["host"] \in {Absent, UndefinedValue}) =>
                  requestOptions.headers["host"] = hostOfTarget
            /\ (call.url = ExampleUrl /\ ~CallerGave("host")) =>
                  requestOptions.headers["host"] = "svc.internal:8443"

C14_Witness ==
    /\ cpc # "idle" /\ proxyUrl # <<>> /\ call.url = ExampleUrl
    /\ ~CallerGave("host")
    /\ requestOptions.uri.hostname = "proxy.internal"
    /\ requestOptions.uri.port = "3128"
    /\ requestOptions.uri.protocol = "https:" /\ requestOptions.uri.path = "/x"
    /\ requestOptions.headers["host"] = "svc.internal:8443"

\* r's findServiceBy promise rejects in this step
Rejects(r) == pc[r] = "fetching" /\ fetchOutcome'[r] = "rejected"
\* what belongs to request r alone
Own(r) == <<pc[r], req[r], gatewayAccountId[r], cachedService[r], locals[r],
            nextCalls[r], fetchCalls[r], responded[r], fetchOutcome[r]>>

\* C15: while request A's fetch is outstanding, any other request B can be
\* handled; if B passes the start check and its account identifier has a
\* live cache entry, B gets that entry as its service and its next() within
\* its own handling step, with no fetch, and A is left exactly as it was;
\* when A's fetch settles, A's outcome is that of its own fetch: on success
\* its own fetched service and one next(), on failure no service.
C15_PendingFetchSuspendsOnlyItsRequest ==
    /\ [](\A a, b \in Reqs :
            (a # b /\ pc[a] = "fetching" /\ pc[b] = "idle"
             /\ \A q \in Reqs : q < b => pc[q] # "idle") =>
                \A in \in ReqInputs : ENABLED Handle(b, in))
    /\ [][\A a, b \in Reqs :
            (a # b /\ pc[a] = "fetching" /\ Arrives(b)) =>
                /\ Own(a)' = Own(a)
                /\ (~StartCheckFails(req'[b])
                      /\ Truthy(CacheGet(cache, ArrivingKey(b), now))) =>
                        /\ pc'[b] = "done"
                        /\ locals'[b] = CacheGet(cache, ArrivingKey(b), now)
                        /\ nextCalls'[b] = 1 /\ fetchCalls'[b] = 0]_vars
    /\ [][\A a \in Reqs :
            /\ Resolves(a) =>
                  /\ locals'[a] = [gw |-> gatewayAccountId[a], by |-> a]
                  /\ nextCalls'[a] = 1 /\ pc'[a] = "done"
            /\ Rejects(a) =>
                  /\ locals'[a] = Null
                  /\ nextCalls'[a] = (IF ServiceNameReadable(req[a]) THEN 1 ELSE 0)]_vars

\* at time 0 request 2 is still fetching account k, which it missed before
\* the entry was written, and request 1, handled after that write, has been
\* served from the cache
C15_Witness ==
    \E k \in Accounts :
        /\ now = 0
        /\ pc[2] = "fetching" /\ gatewayAccountId[2] = k
        /\ pc[1] = "done" /\ gatewayAccountId[1] = k
        /\ fetchCalls[1] = 0 /\ nextCalls[1] = 1
        /\ cache[k].present /\ locals[1] = cache[k].value

\* C16: next() is invoked at most once for a request, and never for a
\* request answered UNAUTHORISED; a request that has been answered, or has
\* continued, or whose continuation threw, takes no further step.
C16_AtMostOneTerminalOutcome ==
    /\ [](\A r \in Reqs :
            /\ nextCalls[r] <= 1
            /\ responded[r] = "UNAUTHORISED" => (nextCalls[r] = 0 /\ pc[r] = "responded")
            /\ nextCalls[r] = 1 => (pc[r] = "done" /\ responded[r] = "none")
            /\ pc[r] = "responded" <=> responded[r] = "UNAUTHORISED")
    /\ [][\A r \in Reqs :
            pc[r] \in {"done", "responded", "threw"} => Own(r)' = Own(r)]_vars

\* one request was answered UNAUTHORISED and another continued after its
\* fetch resolved
C16_Witness ==
    \E r, q \in Reqs :
        /\ pc[r] = "responded" /\ responded[r] = "UNAUTHORISED" /\ nextCalls[r] = 0
        /\ pc[q] = "done" /\ fetchOutcome[q] = "resolved" /\ nextCalls[q] = 1

\* C17: the service attached to a request was returned by a findServiceBy
\* call made for that request's own gateway account identifier, by itself or
\* by the request that filled the cache entry it was served from; every
\* cache entry holds a service fetched for the entry's own key.
C17_ServiceMatchesOwnAccount ==
    /\ \A r \in Reqs :
          locals[r] # Null =>
              /\ locals[r].gw = gatewayAccountId[r]
              /\ locals[r].by \in Reqs
              /\ fetchCalls[locals[r].by] = 1
              /\ fetchOutcome[locals[r].by] = "resolved"
              /\ gatewayAccountId[locals[r].by] = gatewayAccountId[r]
              /\ fetchCalls[r] = 0 <=> locals[r].by # r
    /\ \A k \in Keys :
          cache[k].present =>
              (cache[k].value.gw = k /\ gatewayAccountId[cache[k].value.by] = k)

\* a request served from the cache has the service another request fetched
\* for the same account
C17_Witness ==
    /\ gatewayAccountId[1] = "a2" /\ gatewayAccountId[2] = "a2"
    /\ pc[2] = "done" /\ fetchCalls[2] = 0
    /\ locals[2] = [gw |-> "a2", by |-> 1] /\ locals[1] = locals[2]

\* C18: an entry is added or overwritten only in the step in which a
\* request's findServiceBy resolves, and then only the entry under that
\* request's own key; apart from that an entry changes only by being dropped
\* once its time is over.  A request served from the cache, a request whose
\* fetch fails and a request answered UNAUTHORISED leave the whole cache,
\* expiry times included, as it was.
C18_OnlySuccessfulFetchWrites ==
    /\ [][\A k \in Keys :
            cache'[k] # cache[k] =>
                \/ \E r \in Reqs :
                      /\ Resolves(r) /\ gatewayAccountId[r] = k
                      /\ cache'[k].present
                      /\ cache'[k].value = [gw |-> k, by |-> r]
                      /\ \A j \in Keys \ {k} : cache'[j] = cache[j]
                \/ /\ cache[k].present /\ now >= cache[k].expire
                   /\ cache'[k] = NoEntry]_vars
    /\ [][\A r \in Reqs :
            /\ (Arrives(r) /\ pc'[r] = "done") => cache' = cache
            /\ Rejects(r) => cache' = cache
            /\ (Arrives(r) /\ pc'[r] = "responded") => cache' = cache]_vars

\* after its entry was written an account's later request was served from
\* the cache, and the entry still expires SERVICE_CACHE_MAX_AGE after the
\* write; the other request was answered from it too or failed
C18_Witness ==
    \E k \in Keys :
        /\ cache[k].present /\ lastPut[k] >= 0 /\ now > lastPut[k]
        /\ cache[k].expire = lastPut[k] + SERVICE_CACHE_MAX_AGE
        /\ pc[2] = "done" /\ fetchCalls[2] = 0 /\ gatewayAccountId[2] = k
        /\ cachedService[2] = cache[k].value /\ locals[2] = cache[k].value
        /\ cache[k].value.by = 1

====
